---- MODULE Spec2Model ----
(***************************************************************************)
(* Model of the voice-driven search of the Dashboard component             *)
(* (AdminDashboard): the React state of the component, the closures that   *)
(* handleVoiceSearch installs on the SpeechRecognition object, the 800 ms  *)
(* timers they schedule, and the fetches of handleSearch.                  *)
(*                                                                         *)
(* Strings that are normalised (transcripts, registration keys) are        *)
(* sequences of one-character strings; messages are TLA+ strings.          *)
(***************************************************************************)
EXTENDS Integers, Sequences, FiniteSets, TLC

\* ---- bounds ----
MaxActivations == 2     \* recognition.start() calls that begin an activation
MaxSearches == 2        \* calls of handleSearch
MaxAlerts == 1          \* alert() calls

\* ---- inputs ----
\* what the recogniser may hear (event.results[0][0].transcript)
Transcripts == { <<" ", "m", "h", " ", "1", " ">>, <<"K", "a", "2">> }
\* what the operator may type into the search box
TypedKeys == { <<"X", "X", "0">> }
\* `detail` of a non-ok response body; "" stands for a body without detail
Details == { "", "Car is not registered" }
\* message of the error a rejected fetch()/res.json() throws
TransportMessages == { "Failed to fetch" }

Whitespace == { " " }
UpperOf == [a |-> "A", h |-> "H", k |-> "K", m |-> "M", x |-> "X"]

VARIABLES
  hasRecognition,   \* window.SpeechRecognition || window.webkitSpeechRecognition
  hasSynthesis,     \* window.speechSynthesis
  searchReg, foundVehicle, error, actionMsg, isListening,
  acts,             \* recognition activations: handlers' closure and phase
  timers,           \* pending setTimeout(() => handleSearch(), 800), oldest first;
                    \* `transcript` records the result that scheduled the timer
  inflight,         \* fetches of handleSearch awaiting their response
  nFetch,           \* fetch() calls made by handleSearch
  nSpeak,           \* synth.speak() calls
  alerts            \* alert() calls

vars == << hasRecognition, hasSynthesis, searchReg, foundVehicle, error,
           actionMsg, isListening, acts, timers, inflight, nFetch, nSpeak,
           alerts >>

\* ---- String.prototype.trim / toUpperCase / replace(/\s+/g, "") ----
RECURSIVE TrimStart(_)
TrimStart(s) ==
  IF s # << >> /\ Head(s) \in Whitespace THEN TrimStart(Tail(s)) ELSE s

RECURSIVE TrimEnd(_)
TrimEnd(s) ==
  IF s # << >> /\ s[Len(s)] \in Whitespace
  THEN TrimEnd(SubSeq(s, 1, Len(s) - 1)) ELSE s

Trim(s) == TrimEnd(TrimStart(s))

ToUpperChar(c) == IF c \in DOMAIN UpperOf THEN UpperOf[c] ELSE c

ToUpperCase(s) == [i \in 1..Len(s) |-> ToUpperChar(s[i])]

IsNotWhitespace(c) == c \notin Whitespace

ReplaceWhitespace(s) == SelectSeq(s, IsNotWhitespace)

\* line 64: the transcript shown to the user
HeardTranscript(t) == ToUpperCase(Trim(t))

\* line 65: the value given to setSearchReg
HeardKey(t) == ReplaceWhitespace(HeardTranscript(t))

\* ---- values ----
NoVehicle == [present |-> FALSE, reg |-> << >>]          \* null
VehicleOf(key) == [present |-> TRUE, reg |-> key]        \* res.json() of an ok response

NoMsg == [kind |-> "none", text |-> << >>]               \* ""
ListeningMsg == [kind |-> "listening", text |-> << >>]
HeardMsg(t) == [kind |-> "heard", text |-> t]
FailedMsg == [kind |-> "failed", text |-> << >>]

FallbackMessage == "Vehicle not found"

\* variant: the detail of the response is ignored
ErrorMessage_fallback(detail) == FallbackMessage

\* line 39: data.detail || "Vehicle not found"
ErrorMessage(detail) == IF detail # "" THEN detail ELSE FallbackMessage

\* ---- re-rendering ----
\* Every render builds a new SpeechRecognition object (line 16) and new
\* closures.  `cur` of an activation says that its object is the one of the
\* current render; a state change makes every object a stale one.
Render(sr, fv, er, am, il, newActs) ==
  /\ searchReg' = sr
  /\ foundVehicle' = fv
  /\ error' = er
  /\ actionMsg' = am
  /\ isListening' = il
  /\ acts' = IF << sr, fv, er, am, il >>
                = << searchReg, foundVehicle, error, actionMsg, isListening >>
             THEN newActs
             ELSE [a \in DOMAIN newActs |-> [newActs[a] EXCEPT !.cur = FALSE]]

Init ==
  /\ hasRecognition \in BOOLEAN
  /\ hasSynthesis \in BOOLEAN
  /\ searchReg = << >>
  /\ foundVehicle = NoVehicle
  /\ error = ""
  /\ actionMsg = NoMsg
  /\ isListening = FALSE
  /\ acts = << >>
  /\ timers = << >>
  /\ inflight = {}
  /\ nFetch = 0
  /\ nSpeak = 0
  /\ alerts = 0

\* the operator edits the search box (line 115)
onChange(k) ==
  /\ Render(k, foundVehicle, error, actionMsg, isListening, acts)
  /\ UNCHANGED << hasRecognition, hasSynthesis, timers, inflight, nFetch, nSpeak,
                  alerts >>

\* ---- Search Vehicle (lines 30-45) ----
\* lines 31-37: the synchronous part of handleSearch, up to the fetch of
\* `key`, the searchReg of the closure that runs
handleSearch(key) ==
  /\ nFetch < MaxSearches
  /\ Render(searchReg, NoVehicle, "", NoMsg, isListening, acts)
  /\ inflight' = inflight \cup { [id |-> nFetch + 1, key |-> key] }
  /\ nFetch' = nFetch + 1
  /\ UNCHANGED << hasRecognition, hasSynthesis, nSpeak, alerts >>

\* lines 110-119: the form is submitted; `required` refuses an empty box
onSubmit ==
  /\ searchReg # << >>
  /\ handleSearch(searchReg)
  /\ timers' = timers

\* line 68: the timers have one delay, so the oldest fires first; it calls
\* the handleSearch its handler captured
timerFires ==
  /\ timers # << >>
  /\ handleSearch(Head(timers).key)
  /\ timers' = Tail(timers)

\* lines 82-88: speakResult
speakResult == nSpeak' = IF hasSynthesis THEN nSpeak + 1 ELSE nSpeak

\* the awaited response of fetch `s` is consumed
Completed(s) ==
  /\ inflight' = inflight \ {s}
  /\ UNCHANGED << hasRecognition, hasSynthesis, timers, nFetch, alerts >>

\* lines 37-41: the response is ok
searchFound(s) ==
  /\ s \in inflight
  /\ Render(searchReg, VehicleOf(s.key), error, actionMsg, isListening, acts)
  /\ speakResult
  /\ Completed(s)

\* lines 39, 42-44: the response is not ok
searchNotOk(s, detail) ==
  /\ s \in inflight
  /\ Render(searchReg, foundVehicle, ErrorMessage(detail), actionMsg,
            isListening, acts)
  /\ nSpeak' = nSpeak
  /\ Completed(s)

\* lines 37-38, 42-44: fetch() or res.json() rejects
searchRejected(s, message) ==
  /\ s \in inflight
  /\ Render(searchReg, foundVehicle, message, actionMsg, isListening, acts)
  /\ nSpeak' = nSpeak
  /\ Completed(s)

\* ---- Voice Recognition Handler (lines 48-79) ----
\* An activation is one recognition.start() with the handlers that were
\* installed before it.  `key` is the searchReg its handlers' handleSearch
\* closes over, `phase` is how far the SpeechRecognition object has come in
\* delivering start, then a result or an error, then end (with
\* continuous = false there is one result at most).  An ended activation
\* runs no handler any more, so its closure is dropped.
Ended == [phase |-> "ended", key |-> << >>, cur |-> FALSE]

\* the recognition object of this render has been started and has not ended
ObjectStarted == \E a \in DOMAIN acts : acts[a].cur /\ acts[a].phase # "ended"

\* variant: the null check of line 49 is missing
recognition_unchecked == TRUE

\* line 16: recognition is an object, not null
recognition == hasRecognition

\* lines 49-52
voiceUnsupported ==
  /\ ~recognition
  /\ alerts < MaxAlerts
  /\ alerts' = alerts + 1
  /\ UNCHANGED << hasRecognition, hasSynthesis, searchReg, foundVehicle,
                  error, actionMsg, isListening, acts, timers, inflight, nFetch,
                  nSpeak >>

\* lines 54-78 on an object that is already started: the handlers are
\* replaced by closures of the same render and start() throws InvalidStateError
voiceRestartThrows ==
  /\ recognition
  /\ ObjectStarted
  /\ timers' = timers
  /\ UNCHANGED << hasRecognition, hasSynthesis, searchReg, foundVehicle,
                  error, actionMsg, isListening, acts, inflight, nFetch, nSpeak,
                  alerts >>

\* lines 54-78: the handlers capture this render's handleSearch, and with it
\* this render's searchReg; start() begins an activation
voiceStart ==
  /\ recognition
  /\ ~ObjectStarted
  /\ Len(acts) < MaxActivations
  /\ acts' = Append(acts, [phase |-> "started", key |-> searchReg, cur |-> TRUE])
  /\ timers' = timers
  /\ UNCHANGED << hasRecognition, hasSynthesis, searchReg, foundVehicle,
                  error, actionMsg, isListening, inflight, nFetch, nSpeak, alerts >>

handleVoiceSearch == voiceUnsupported \/ voiceRestartThrows \/ voiceStart

\* variant: onend leaves isListening as it is
OnEndListening_kept == isListening

\* line 77: what onend gives to setIsListening
OnEndListening == FALSE

\* lines 58-61
onstart(a) ==
  /\ a \in DOMAIN acts
  /\ acts[a].phase = "started"
  /\ Render(searchReg, foundVehicle, error, ListeningMsg, TRUE,
            [acts EXCEPT ![a].phase = "listening"])
  /\ UNCHANGED << hasRecognition, hasSynthesis, timers, inflight, nFetch, nSpeak,
                  alerts >>

\* lines 63-69
onresult(a, t) ==
  /\ a \in DOMAIN acts
  /\ acts[a].phase = "listening"
  /\ Render(HeardKey(t), foundVehicle, error, HeardMsg(HeardTranscript(t)),
            FALSE, [acts EXCEPT ![a].phase = "resulted"])
  /\ timers' = Append(timers, [key |-> acts[a].key, transcript |-> t])
  /\ UNCHANGED << hasRecognition, hasSynthesis, inflight, nFetch, nSpeak, alerts >>

\* variant: onerror schedules the search as onresult does
OnErrorTimers_search(a) == Append(timers, [key |-> acts[a].key, transcript |-> << >>])

\* lines 71-75: the timers after onerror, which schedules nothing
OnErrorTimers(a) == timers

\* lines 71-75
onerror(a) ==
  /\ a \in DOMAIN acts
  /\ acts[a].phase \in {"started", "listening", "resulted"}
  /\ Render(searchReg, foundVehicle, error, FailedMsg, FALSE,
            [acts EXCEPT ![a].phase = "errored"])
  /\ timers' = OnErrorTimers(a)
  /\ UNCHANGED << hasRecognition, hasSynthesis, inflight, nFetch, nSpeak, alerts >>

\* line 77
onend(a) ==
  /\ a \in DOMAIN acts
  /\ acts[a].phase \in {"listening", "resulted", "errored"}
  /\ Render(searchReg, foundVehicle, error, actionMsg, OnEndListening,
            [acts EXCEPT ![a] = Ended])
  /\ UNCHANGED << hasRecognition, hasSynthesis, timers, inflight, nFetch, nSpeak,
                  alerts >>

Activations == 1..MaxActivations

Next ==
  \/ \E k \in TypedKeys : onChange(k)
  \/ onSubmit
  \/ timerFires
  \/ \E s \in inflight : searchFound(s)
  \/ \E s \in inflight, d \in Details : searchNotOk(s, d)
  \/ \E s \in inflight, m \in TransportMessages : searchRejected(s, m)
  \/ handleVoiceSearch
  \/ \E a \in Activations : onstart(a)
  \/ \E a \in Activations, t \in Transcripts : onresult(a, t)
  \/ \E a \in Activations : onerror(a)
  \/ \E a \in Activations : onend(a)

Spec == Init /\ [][Next]_vars

\* the Recognition Source ends every activation it has started
FairSpec == Spec /\ \A a \in Activations : WF_vars(onend(a))

\* ---- the steps the properties speak of ----
SearchStarts == onSubmit \/ timerFires

SearchFails(s) ==
  \/ \E d \in Details : searchNotOk(s, d)
  \/ \E m \in TransportMessages : searchRejected(s, m)

SearchResponds(s) == searchFound(s) \/ SearchFails(s)

\* T uppercased with all whitespace removed
UpperNoSpace(t) == ToUpperCase(SelectSeq(t, IsNotWhitespace))

\* C1: at most one scheduled search is pending at any time, so that two voice
\* results within the delay lead to one search
C1_OnePendingSearch == Len(timers) <= 1

\* C2: whenever no search is in flight and one has completed, exactly one of
\* foundVehicle and error is non-empty; right after a search starts both are empty
C2_ExactlyOneOutcome ==
  [][ /\ (inflight' = {} /\ nFetch' > 0)
           => ((foundVehicle' # NoVehicle) # (error' # ""))
      /\ SearchStarts => (foundVehicle' = NoVehicle /\ error' = "") ]_vars

\* C3: a manual search or a new handleVoiceSearch call cancels the scheduled
\* search that has not fired yet: none is pending after it
C3_SupersededIsCancelled ==
  [][ ((onSubmit \/ handleVoiceSearch) /\ timers # << >>) => timers' = << >> ]_vars

\* C4: once a newer search has started, the response of an earlier one changes
\* neither foundVehicle nor error
C4_StaleResponseIsNoOp ==
  [][ \A s \in inflight :
        (s.id < nFetch /\ SearchResponds(s)) => UNCHANGED << foundVehicle, error >> ]_vars

\* C5: onresult(T) makes searchReg T uppercased without whitespace, and the
\* search its timer starts fetches exactly that key
C5_SearchUsesHeardKey ==
  [][ /\ \A a \in Activations, t \in Transcripts :
           onresult(a, t) => searchReg' = UpperNoSpace(t)
      /\ timerFires =>
           \E s \in inflight' \ inflight : s.key = UpperNoSpace(Head(timers).transcript) ]_vars

\* C6: after onend is handled isListening is false, whatever came before
C6_IdleAfterOnEnd ==
  [][ (\E a \in Activations : onend(a)) => isListening' = FALSE ]_vars

\* an activation ended after onstart with neither a result nor an error
C6_Witness ==
  /\ Len(acts) = 1
  /\ acts[1].phase = "ended"
  /\ actionMsg = ListeningMsg
  /\ ~isListening

\* C7: without the recognition capability handleVoiceSearch alerts and changes
\* nothing: no activation, no scheduled search, the displayed state as before
C7_UnsupportedChangesNothing ==
  [][ (handleVoiceSearch /\ ~hasRecognition)
        => /\ alerts' = alerts + 1
           /\ UNCHANGED << isListening, actionMsg, searchReg, foundVehicle, error,
                           acts, timers, inflight, nFetch, nSpeak >> ]_vars

C7_Witness == ~hasRecognition /\ alerts > 0 /\ searchReg # << >> /\ ~isListening

\* C8: onerror makes isListening false and actionMsg the failure notice,
\* schedules no search and leaves searchReg, foundVehicle and error alone
C8_OnErrorOnlyAnnounces ==
  [][ \A a \in Activations :
        onerror(a) => /\ isListening' = FALSE
                      /\ actionMsg' = FailedMsg
                      /\ UNCHANGED << timers, inflight, nFetch, searchReg,
                                      foundVehicle, error >> ]_vars

C8_Witness ==
  \E a \in DOMAIN acts :
    acts[a].phase = "errored" /\ actionMsg = FailedMsg /\ ~isListening /\ timers = << >>

C10_ListeningReturnsToIdle == (isListening = TRUE) ~> (isListening = FALSE)

C10_Witness ==
  /\ isListening
  /\ \E a, b \in DOMAIN acts :
       a # b /\ acts[a].phase = "listening" /\ acts[b].phase = "listening"
====
